---- MODULE Spec2Model ----
(***************************************************************************)
(* Model of the disk-backed LRU cache engine of bazelcache                 *)
(* (bazelcache/filesystem.go): the index (store map, first/last pointers,  *)
(* doubly linked finfo entries, total), the files on disk, the two         *)
(* buffered channels, one caller of Get/Put/Delete/Has and the housekeeper *)
(* goroutine.  The statements between mx.Lock() and mx.Unlock() are one    *)
(* step unless they can block; the housekeeper's unlocked reads of         *)
(* fs.total and fs.last in ensureSize are steps of their own.              *)
(***************************************************************************)
EXTENDS Integers, Sequences, FiniteSets, TLC

\* ---------------------------------------------------------------- bounds
NumKeys == 2          \* the caller's keys are 1..NumKeys
NumFiles == 3         \* the files found in the cache directory at startup are 1..NumFiles
MaxLen == 1           \* longest content written by a Put or found at startup
MaxEntries == 3       \* finfo objects allocated in one run
MaxBudget == 1        \* maxSize is drawn from 0..MaxBudget
MaxMtime == 2         \* modification times found at startup are 1..MaxMtime
channelBuffer == 1    \* capacity of toRemove and toTouch (100 in the source)
NumBackends == 2      \* a chainCache has 0..NumBackends backends

nil == 0
Keys == 1..NumKeys
AllKeys == 1..(IF NumFiles > NumKeys THEN NumFiles ELSE NumKeys)
Bytes == {1}            \* a content is told from another by its length
Data == UNION {[1..n -> Bytes] : n \in 0..MaxLen}
Entries == 1..(IF NumFiles > MaxEntries THEN NumFiles ELSE MaxEntries)
NoFile == [exists |-> FALSE, data |-> <<>>]
File(d) == [exists |-> TRUE, data |-> d]
base == "cacheDir"

\* path.Join(fs.base, key)
fname(key) == <<base, key>>

\* filepath.Rel(cacheDir, path)
Rel(dir, p) == IF p[1] = dir THEN p[2] ELSE nil

Paths == {fname(k) : k \in AllKeys}

VARIABLES
  MaxSize,    \* fs.MaxSize
  fs,         \* [store, first, last, total] of fileSystemCache
  heap,       \* the finfo objects: id -> [key, size, next, prev]
  nalloc,     \* number of finfo objects allocated so far
  mx,         \* holder of fs.mx: "free", "cl" or "hk"
  toRemove,   \* channel fs.toRemove
  toTouch,    \* channel fs.toTouch
  disk,       \* path -> content of the file, or NoFile
  mtime,      \* path -> modification time of the file (0: no file)
  cl,         \* the caller: position and locals of the call in progress
  hk,         \* the housekeeper goroutine: position and ensureSize's toRemove
  phase,      \* "walk", "replay" (NewFileSystemCache), "running", "failed"
  files,      \* NewFileSystemCache's sorted slice of fileAndInfo
  idx,        \* index of the range loop over files
  recency,    \* history: keys of the store, least recently put or hit first
  lastPut,    \* history: key -> content of the last successful Put since the
              \* key was last removed from the store (NoFile: none)
  bcs,        \* chainCache.bcs: the backends, each key -> content or NoFile
  cc          \* the chainCache call in progress: position, locals, and the
              \* history of the backend calls it has made

vars == <<MaxSize, fs, heap, nalloc, mx, toRemove, toTouch, disk, mtime, cl, hk,
          phase, files, idx, recency, lastPut, bcs, cc>>

\* ------------------------------------------------------------- helpers
Max(S) == IF S = {} THEN 0 ELSE CHOOSE x \in S : \A y \in S : y <= x

\* Modification times are kept as dense ranks: only their order is observable.
Normalise(mt) ==
  [p \in Paths |->
     IF mt[p] = 0 THEN 0
     ELSE Cardinality({mt[q] : q \in {r \in Paths : mt[r] # 0 /\ mt[r] < mt[p]}}) + 1]

\* the file at p gets modification time "now", later than every other file's
Stamp(mt, p) == Normalise([mt EXCEPT ![p] = Max({mt[q] : q \in Paths}) + 1])

Without(s, k) == SelectSeq(s, LAMBDA x : x # k)

NoEntry == [key |-> nil, size |-> 0, next |-> nil, prev |-> nil]

IdleCl == [pc |-> "idle", op |-> "none", key |-> nil, data |-> <<>>, fi |-> nil,
           n |-> 0, err |-> "nil", out |-> <<>>]

Alive == cl.pc # "panic" /\ hk.pc # "panic"
Running == phase = "running" /\ Alive

\* ------------------------------------------------ the index operations
\* fileSystemCache.insert; toInsert is a freshly allocated finfo of heap H
insert(F, H, toInsert) ==
  LET H1 == [H EXCEPT ![toInsert].prev = F.first]
      H2 == IF F.first # nil THEN [H1 EXCEPT ![F.first].next = toInsert] ELSE H1
  IN [fs |-> [store |-> [F.store EXCEPT ![H[toInsert].key] = toInsert],
              first |-> toInsert,
              last  |-> IF F.last = nil THEN toInsert ELSE F.last,
              total |-> F.total + H[toInsert].size],
      heap |-> H2]

\* fileSystemCache.remove; toRemove # nil
remove(F, H, r) ==
  LET total1 == F.total - H[r].size
      H1 == IF H[r].next # nil THEN [H EXCEPT ![H[r].next].prev = H[r].prev] ELSE H
      first1 == IF H[r].next # nil THEN F.first ELSE H[r].prev
      H2 == IF H1[r].prev # nil THEN [H1 EXCEPT ![H1[r].prev].next = H1[r].next] ELSE H1
      last1 == IF H1[r].prev # nil THEN F.last ELSE H1[r].next
  IN [fs |-> [store |-> [F.store EXCEPT ![H[r].key] = nil],
              first |-> first1,
              last  |-> last1,
              total |-> total1],
      heap |-> H2]

\* fileSystemCache.putFirst up to the send on toTouch, for item.next # nil;
\* fs.first.next = item panics when fs.first is nil
putFirst(F, H, item) ==
  LET H1 == [H EXCEPT ![H[item].next].prev = H[item].prev]
      H2 == IF H1[item].prev # nil THEN [H1 EXCEPT ![H1[item].prev].next = H1[item].next]
            ELSE H1
      H3 == [H2 EXCEPT ![item].prev = F.first]
  IN IF F.first = nil
     THEN [fs |-> F, heap |-> H3, panic |-> TRUE]
     ELSE [fs |-> F, heap |-> [H3 EXCEPT ![F.first].next = item], panic |-> FALSE]

\* os.ReadFile: a missing file yields a *PathError wrapping ENOENT
ReadFile(p) ==
  IF disk[p] = NoFile THEN [b |-> <<>>, err |-> "PathError"]
  ELSE [b |-> disk[p].data, err |-> "nil"]

\* Get's mapping of the read error (err == os.ErrNotExist)
GetErr(err) == IF err = "ErrNotExist" THEN "ErrNotFound" ELSE err

\* no chainCache call in progress; out and err are the named results
IdleCc == [pc |-> "idle", op |-> "none", key |-> nil, data |-> <<>>, i |-> 1,
           out |-> NoFile, err |-> "nil", log |-> <<>>]

UnchangedChain == UNCHANGED <<bcs, cc>>

\* ------------------------------------------------------------ the caller
UnchangedStart == UNCHANGED <<MaxSize, phase, files, idx>>

\* Get: Lock, lookup, putFirst's pointer updates
GetLock(k) ==
  /\ Running /\ cl.pc = "idle" /\ mx = "free"
  /\ LET fi == fs.store[k] IN
       IF fi = nil
       THEN /\ cl' = [IdleCl EXCEPT !.pc = "ret", !.op = "Get", !.key = k,
                                    !.err = "ErrNotFound"]
            /\ UNCHANGED <<fs, heap, mx, recency>>
       ELSE /\ recency' = Append(Without(recency, k), k)
            /\ IF heap[fi].next = nil
               THEN /\ cl' = [IdleCl EXCEPT !.pc = "read", !.op = "Get", !.key = k, !.fi = fi]
                    /\ UNCHANGED <<fs, heap, mx>>
               ELSE LET r == putFirst(fs, heap, fi) IN
                    /\ cl' = [IdleCl EXCEPT !.pc = IF r.panic THEN "panic" ELSE "touch",
                                            !.op = "Get", !.key = k, !.fi = fi]
                    /\ heap' = r.heap
                    /\ mx' = "cl"
                    /\ UNCHANGED fs
  /\ UNCHANGED <<nalloc, toRemove, toTouch, disk, mtime, hk, lastPut>>
  /\ UnchangedStart
  /\ UnchangedChain

\* putFirst's touchFileForKey(item.key), then Get's Unlock
GetTouch ==
  /\ Running /\ cl.pc = "touch"
  /\ Len(toTouch) < channelBuffer
  /\ toTouch' = Append(toTouch, fname(heap[cl.fi].key))
  /\ mx' = "free"
  /\ cl' = [cl EXCEPT !.pc = "read"]
  /\ UNCHANGED <<fs, heap, nalloc, toRemove, disk, mtime, hk, recency, lastPut>>
  /\ UnchangedStart
  /\ UnchangedChain

\* Get: os.ReadFile(fs.fname(fi.key)) and the error mapping
GetRead ==
  /\ Running /\ cl.pc = "read"
  /\ LET r == ReadFile(fname(heap[cl.fi].key)) IN
       cl' = [cl EXCEPT !.pc = "ret", !.out = r.b, !.err = GetErr(r.err)]
  /\ UNCHANGED <<fs, heap, nalloc, mx, toRemove, toTouch, disk, mtime, hk, recency, lastPut>>
  /\ UnchangedStart
  /\ UnchangedChain

\* Put: ensureExist, os.Create, io.Copy and Close all succeed
PutWrite(k, d) ==
  /\ Running /\ cl.pc = "idle" /\ nalloc < MaxEntries
  /\ disk' = [disk EXCEPT ![fname(k)] = File(d)]
  /\ mtime' = Stamp(mtime, fname(k))
  /\ cl' = [IdleCl EXCEPT !.pc = "insert", !.op = "Put", !.key = k, !.data = d, !.n = Len(d)]
  /\ UNCHANGED <<fs, heap, nalloc, mx, toRemove, toTouch, hk, recency, lastPut>>
  /\ UnchangedStart
  /\ UnchangedChain

\* Put: ensureExist or os.Create fails; nothing was written
PutFailCreate(k, d) ==
  /\ Running /\ cl.pc = "idle"
  /\ cl' = [IdleCl EXCEPT !.pc = "ret", !.op = "Put", !.key = k, !.data = d,
                          !.err = "CreateError"]
  /\ UNCHANGED <<fs, heap, nalloc, mx, toRemove, toTouch, disk, mtime, hk, recency, lastPut>>
  /\ UnchangedStart
  /\ UnchangedChain

\* (PutFailCopyKeepsFile: the deferred os.Remove left out, the truncated file stays)
PutFailCopyKeepsFile(k, d) ==
  /\ Running /\ cl.pc = "idle"
  /\ disk' = [disk EXCEPT ![fname(k)] = File(<<>>)]
  /\ mtime' = Stamp(mtime, fname(k))
  /\ cl' = [IdleCl EXCEPT !.pc = "ret", !.op = "Put", !.key = k, !.data = d,
                          !.err = "CopyError"]
  /\ UNCHANGED <<fs, heap, nalloc, mx, toRemove, toTouch, hk, recency, lastPut>>
  /\ UnchangedStart
  /\ UnchangedChain

\* Put: io.Copy or Close fails after os.Create; the deferred os.Remove runs
PutFailCopy(k, d) ==
  /\ Running /\ cl.pc = "idle"
  /\ disk' = [disk EXCEPT ![fname(k)] = NoFile]
  /\ mtime' = Normalise([mtime EXCEPT ![fname(k)] = 0])
  /\ cl' = [IdleCl EXCEPT !.pc = "ret", !.op = "Put", !.key = k, !.data = d,
                          !.err = "CopyError"]
  /\ UNCHANGED <<fs, heap, nalloc, mx, toRemove, toTouch, hk, recency, lastPut>>
  /\ UnchangedStart
  /\ UnchangedChain

\* Put: Lock, insert(&finfo{key, size: n}), Unlock
PutInsert ==
  /\ Running /\ cl.pc = "insert" /\ mx = "free"
  /\ LET e == nalloc + 1
         H == [heap EXCEPT ![e] = [key |-> cl.key, size |-> cl.n, next |-> nil, prev |-> nil]]
         r == insert(fs, H, e)
     IN /\ fs' = r.fs
        /\ heap' = r.heap
        /\ nalloc' = e
  /\ recency' = Append(Without(recency, cl.key), cl.key)
  /\ lastPut' = [lastPut EXCEPT ![cl.key] = File(cl.data)]
  /\ cl' = [cl EXCEPT !.pc = "ret", !.err = "nil"]
  /\ UNCHANGED <<mx, toRemove, toTouch, disk, mtime, hk>>
  /\ UnchangedStart
  /\ UnchangedChain

\* (DeleteLockAbsentFails: the absent key reported as an error)
DeleteLockAbsentFails(k) ==
  /\ Running /\ cl.pc = "idle" /\ mx = "free"
  /\ LET r == fs.store[k] IN
       IF r = nil
       THEN /\ cl' = [IdleCl EXCEPT !.pc = "ret", !.op = "Delete", !.key = k,
                                    !.err = "ErrNotFound"]
            /\ UNCHANGED <<fs, heap, recency, lastPut>>
       ELSE /\ fs' = remove(fs, heap, r).fs
            /\ heap' = remove(fs, heap, r).heap
            /\ recency' = Without(recency, heap[r].key)
            /\ lastPut' = [lastPut EXCEPT ![heap[r].key] = NoFile]
            /\ cl' = [IdleCl EXCEPT !.pc = "rm", !.op = "Delete", !.key = k, !.fi = r]
  /\ UNCHANGED <<nalloc, mx, toRemove, toTouch, disk, mtime, hk>>
  /\ UnchangedStart
  /\ UnchangedChain

\* Delete: Lock, lookup, remove, Unlock
DeleteLock(k) ==
  /\ Running /\ cl.pc = "idle" /\ mx = "free"
  /\ LET r == fs.store[k] IN
       IF r = nil
       THEN /\ cl' = [IdleCl EXCEPT !.pc = "ret", !.op = "Delete", !.key = k]
            /\ UNCHANGED <<fs, heap, recency, lastPut>>
       ELSE /\ fs' = remove(fs, heap, r).fs
            /\ heap' = remove(fs, heap, r).heap
            /\ recency' = Without(recency, heap[r].key)
            /\ lastPut' = [lastPut EXCEPT ![heap[r].key] = NoFile]
            /\ cl' = [IdleCl EXCEPT !.pc = "rm", !.op = "Delete", !.key = k, !.fi = r]
  /\ UNCHANGED <<nalloc, mx, toRemove, toTouch, disk, mtime, hk>>
  /\ UnchangedStart
  /\ UnchangedChain

\* Delete: fs.rmFileForKey(toRemove.key)
DeleteSend ==
  /\ Running /\ cl.pc = "rm"
  /\ Len(toRemove) < channelBuffer
  /\ toRemove' = Append(toRemove, fname(heap[cl.fi].key))
  /\ cl' = [cl EXCEPT !.pc = "ret", !.err = "nil"]
  /\ UNCHANGED <<fs, heap, nalloc, mx, toTouch, disk, mtime, hk, recency, lastPut>>
  /\ UnchangedStart
  /\ UnchangedChain

\* Has's lookup: _, ok := fs.store[key]
has(k) == fs.store[k] # nil

\* (HasPromotes: the lookup promoted the Entry it found, as Get does)
HasPromotes(k) ==
  /\ Running /\ cl.pc = "idle" /\ mx = "free"
  /\ cl' = [IdleCl EXCEPT !.pc = "ret", !.op = "Has", !.key = k,
                          !.out = IF has(k) THEN <<1>> ELSE <<>>]
  /\ fs' = IF has(k) THEN putFirst(fs, heap, fs.store[k]).fs ELSE fs
  /\ heap' = IF has(k) THEN putFirst(fs, heap, fs.store[k]).heap ELSE heap
  /\ UNCHANGED <<nalloc, mx, toRemove, toTouch, disk, mtime, hk, recency, lastPut>>
  /\ UnchangedStart
  /\ UnchangedChain

\* Has: Lock, lookup, Unlock
Has(k) ==
  /\ Running /\ cl.pc = "idle" /\ mx = "free"
  /\ cl' = [IdleCl EXCEPT !.pc = "ret", !.op = "Has", !.key = k,
                          !.out = IF has(k) THEN <<1>> ELSE <<>>]
  /\ UNCHANGED <<fs, heap, nalloc, mx, toRemove, toTouch, disk, mtime, hk, recency, lastPut>>
  /\ UnchangedStart
  /\ UnchangedChain

\* the call returns to the caller
Return ==
  /\ Running /\ cl.pc = "ret"
  /\ cl' = IdleCl
  /\ UNCHANGED <<fs, heap, nalloc, mx, toRemove, toTouch, disk, mtime, hk, recency, lastPut>>
  /\ UnchangedStart
  /\ UnchangedChain

\* ------------------------------------------------------ the housekeeper
\* case name := <-fs.toRemove: os.Remove(name)
HkRemove ==
  /\ Running /\ hk.pc = "select"
  /\ toRemove # <<>>
  /\ toRemove' = Tail(toRemove)
  /\ disk' = [disk EXCEPT ![Head(toRemove)] = NoFile]
  /\ mtime' = Normalise([mtime EXCEPT ![Head(toRemove)] = 0])
  /\ UNCHANGED <<fs, heap, nalloc, mx, toTouch, cl, hk, recency, lastPut>>
  /\ UnchangedStart
  /\ UnchangedChain

\* case name := <-fs.toTouch: os.Chtimes(name, now, now)
HkTouch ==
  /\ Running /\ hk.pc = "select"
  /\ toTouch # <<>>
  /\ toTouch' = Tail(toTouch)
  /\ mtime' = IF disk[Head(toTouch)] = NoFile THEN mtime ELSE Stamp(mtime, Head(toTouch))
  /\ UNCHANGED <<fs, heap, nalloc, mx, toRemove, disk, cl, hk, recency, lastPut>>
  /\ UnchangedStart
  /\ UnchangedChain

\* case <-ticker.C: fs.ensureSize()
HkTick ==
  /\ Running /\ hk.pc = "select"
  /\ hk' = [hk EXCEPT !.pc = "check"]
  /\ UNCHANGED <<fs, heap, nalloc, mx, toRemove, toTouch, disk, mtime, cl, recency, lastPut>>
  /\ UnchangedStart
  /\ UnchangedChain

\* ensureSize: for fs.total > fs.MaxSize (read without the lock)
HkCheck ==
  /\ Running /\ hk.pc = "check"
  /\ hk' = [hk EXCEPT !.pc = IF fs.total > MaxSize THEN "peek" ELSE "select"]
  /\ UNCHANGED <<fs, heap, nalloc, mx, toRemove, toTouch, disk, mtime, cl, recency, lastPut>>
  /\ UnchangedStart
  /\ UnchangedChain

\* ensureSize: toRemove := fs.last (read without the lock)
HkPeek ==
  /\ Running /\ hk.pc = "peek"
  /\ hk' = [hk EXCEPT !.pc = "lock", !.toRemove = fs.last]
  /\ UNCHANGED <<fs, heap, nalloc, mx, toRemove, toTouch, disk, mtime, cl, recency, lastPut>>
  /\ UnchangedStart
  /\ UnchangedChain

\* ensureSize: Lock, remove(toRemove), Unlock; a nil toRemove panics in remove
HkEvict ==
  /\ Running /\ hk.pc = "lock" /\ mx = "free"
  /\ IF hk.toRemove = nil
     THEN /\ hk' = [hk EXCEPT !.pc = "panic"]
          /\ mx' = "hk"
          /\ UNCHANGED <<fs, heap, recency, lastPut>>
     ELSE /\ fs' = remove(fs, heap, hk.toRemove).fs
          /\ heap' = remove(fs, heap, hk.toRemove).heap
          /\ recency' = Without(recency, heap[hk.toRemove].key)
          /\ lastPut' = [lastPut EXCEPT ![heap[hk.toRemove].key] = NoFile]
          /\ hk' = [hk EXCEPT !.pc = "send"]
          /\ UNCHANGED mx
  /\ UNCHANGED <<nalloc, toRemove, toTouch, disk, mtime, cl>>
  /\ UnchangedStart
  /\ UnchangedChain

\* ensureSize: fs.rmFileForKey(toRemove.key)
HkSend ==
  /\ Running /\ hk.pc = "send"
  /\ Len(toRemove) < channelBuffer
  /\ toRemove' = Append(toRemove, fname(heap[hk.toRemove].key))
  /\ hk' = [pc |-> "check", toRemove |-> nil]
  /\ UNCHANGED <<fs, heap, nalloc, mx, toTouch, disk, mtime, cl, recency, lastPut>>
  /\ UnchangedStart
  /\ UnchangedChain

\* ------------------------------------------------------ specifications
EmptyFs == [store |-> [k \in AllKeys |-> nil], first |-> nil, last |-> nil, total |-> 0]

\* the engine as NewFileSystemCache returns it for an empty cache directory
Init ==
  /\ MaxSize \in 0..MaxBudget
  /\ fs = EmptyFs
  /\ heap = [e \in Entries |-> NoEntry]
  /\ nalloc = 0
  /\ mx = "free"
  /\ toRemove = <<>>
  /\ toTouch = <<>>
  /\ disk = [p \in Paths |-> NoFile]
  /\ mtime = [p \in Paths |-> 0]
  /\ cl = IdleCl
  /\ hk = [pc |-> "select", toRemove |-> nil]
  /\ phase = "running"
  /\ files = <<>>
  /\ idx = 1
  /\ recency = <<>>
  /\ lastPut = [k \in AllKeys |-> NoFile]
  /\ bcs = <<>>
  /\ cc = IdleCc

Next ==
  \/ \E k \in Keys : GetLock(k)
  \/ GetTouch
  \/ GetRead
  \/ \E k \in Keys, d \in Data : PutWrite(k, d)
  \/ PutInsert
  \/ \E k \in Keys : DeleteLock(k)
  \/ DeleteSend
  \/ \E k \in Keys : Has(k)
  \/ Return
  \/ HkRemove
  \/ HkTouch
  \/ HkTick
  \/ HkCheck
  \/ HkPeek
  \/ HkEvict
  \/ HkSend

Spec == Init /\ [][Next]_vars

\* ------------------------------------------------ NewFileSystemCache
\* the less function of sort.Slice: files[i].ModTime().After(files[j].ModTime())
\* (lessBefore: the comparison the other way round)
lessBefore(a, b) == a.mtime < b.mtime
less(a, b) == a.mtime > b.mtime

\* what sort.Slice leaves: no element is less than one before it
Sorted(s) == \A i, j \in 1..Len(s) : i < j => ~less(s[j], s[i])

\* the fileAndInfo of the regular file at p
FileAndInfo(p) == [path |-> p, size |-> Len(disk[p].data), mtime |-> mtime[p]]

UnchangedEngine == UNCHANGED <<mx, toRemove, toTouch, cl, hk, lastPut>>

\* filepath.Walk collects the regular files, sort.Slice orders them
Walk ==
  /\ phase = "walk"
  /\ LET found == {FileAndInfo(p) : p \in {q \in Paths : disk[q].exists}}
         n == Cardinality(found)
     IN \E s \in [1..n -> found] :
          /\ \A i, j \in 1..n : i # j => s[i] # s[j]
          /\ Sorted(s)
          /\ files' = s
  /\ phase' = "replay"
  /\ idx' = 1
  /\ UNCHANGED <<MaxSize, fs, heap, nalloc, disk, mtime, recency>>
  /\ UnchangedEngine
  /\ UnchangedChain

\* filepath.Walk returns an error: the construction fails
WalkFail ==
  /\ phase = "walk"
  /\ phase' = "failed"
  /\ UNCHANGED <<MaxSize, fs, heap, nalloc, disk, mtime, files, idx, recency>>
  /\ UnchangedEngine
  /\ UnchangedChain

\* one iteration of the loop over files: os.Remove succeeds, or insert
Replay ==
  /\ phase = "replay" /\ idx <= Len(files)
  /\ LET fi == files[idx] IN
       IF fs.total > MaxSize
       THEN /\ disk' = [disk EXCEPT ![fi.path] = NoFile]
            /\ mtime' = [mtime EXCEPT ![fi.path] = 0]
            /\ UNCHANGED <<fs, heap, nalloc, recency>>
       ELSE LET e == nalloc + 1
                H == [heap EXCEPT ![e] = [key |-> Rel(base, fi.path), size |-> fi.size,
                                          next |-> nil, prev |-> nil]]
                r == insert(fs, H, e)
            IN /\ fs' = r.fs
               /\ heap' = r.heap
               /\ nalloc' = e
               /\ recency' = <<Rel(base, fi.path)>> \o recency
               /\ UNCHANGED <<disk, mtime>>
  /\ idx' = idx + 1
  /\ UNCHANGED <<MaxSize, phase, files>>
  /\ UnchangedEngine
  /\ UnchangedChain

\* one iteration of the loop over files: os.Remove fails, the construction fails
ReplayRemoveFail ==
  /\ phase = "replay" /\ idx <= Len(files)
  /\ fs.total > MaxSize
  /\ phase' = "failed"
  /\ UNCHANGED <<MaxSize, fs, heap, nalloc, disk, mtime, files, idx, recency>>
  /\ UnchangedEngine
  /\ UnchangedChain

\* go fsc.housekeeper(); return fsc, nil
StartHousekeeper ==
  /\ phase = "replay" /\ idx > Len(files)
  /\ phase' = "running"
  /\ UNCHANGED <<MaxSize, fs, heap, nalloc, disk, mtime, files, idx, recency>>
  /\ UnchangedEngine
  /\ UnchangedChain

\* a cache directory holding any of the files, before NewFileSystemCache
StartInit ==
  /\ MaxSize \in 0..MaxBudget
  /\ fs = EmptyFs
  /\ heap = [e \in Entries |-> NoEntry]
  /\ nalloc = 0
  /\ mx = "free"
  /\ toRemove = <<>>
  /\ toTouch = <<>>
  /\ disk \in [Paths -> {NoFile} \cup {File(d) : d \in Data}]
  /\ mtime \in [Paths -> 0..MaxMtime]
  /\ \A p \in Paths : (mtime[p] = 0) <=> ~disk[p].exists
  /\ \A p \in Paths : disk[p].exists => Rel(base, p) <= NumFiles
  /\ cl = IdleCl
  /\ hk = [pc |-> "select", toRemove |-> nil]
  /\ phase = "walk"
  /\ files = <<>>
  /\ idx = 1
  /\ recency = <<>>
  /\ lastPut = [k \in AllKeys |-> NoFile]
  /\ bcs = <<>>
  /\ cc = IdleCc

StartNext ==
  \/ Walk
  \/ WalkFail
  \/ Replay
  \/ ReplayRemoveFail
  \/ StartHousekeeper
  \/ HkRemove
  \/ HkTick
  \/ HkCheck
  \/ HkPeek
  \/ HkEvict
  \/ HkSend

StartSpec == StartInit /\ [][StartNext]_vars

\* the I/O failures of Put are steps of FaultSpec only
FaultNext ==
  \/ Next
  \/ \E k \in Keys, d \in Data : PutFailCreate(k, d)
  \/ \E k \in Keys, d \in Data : PutFailCopy(k, d)

\* the engine on an empty cache directory, with the largest budget
FaultInit == Init /\ MaxSize = MaxBudget

FaultSpec == FaultInit /\ [][FaultNext]_vars

\* every step of a goroutine that can run is eventually taken (the Go
\* scheduler); the caller is not obliged to start another call
Fairness ==
  /\ WF_vars(GetTouch) /\ WF_vars(GetRead) /\ WF_vars(PutInsert)
  /\ WF_vars(DeleteSend) /\ WF_vars(Return)
  /\ WF_vars(HkRemove) /\ WF_vars(HkTouch) /\ WF_vars(HkTick)
  /\ WF_vars(HkCheck) /\ WF_vars(HkPeek) /\ WF_vars(HkEvict) /\ WF_vars(HkSend)

FairSpec == Spec /\ Fairness

\* ------------------------------------------------------- the chainCache
\* the backends a chain is built over, seen through the BazelCache interface
Stores == [Keys -> {NoFile} \cup {File(d) : d \in Data}]
Chains == UNION {[1..n -> Stores] : n \in 0..NumBackends}

\* BazelCache.Get of backend b; ok: the read of a held key succeeds
bcGet(b, k, ok) ==
  IF b[k] = NoFile THEN [out |-> NoFile, err |-> "ErrNotFound"]
  ELSE IF ok THEN [out |-> b[k], err |-> "nil"]
  ELSE [out |-> NoFile, err |-> "PathError"]

\* BazelCache.Put of backend b; ok: the write succeeds
bcPut(b, k, d, ok) ==
  IF ok THEN [b |-> [b EXCEPT ![k] = File(d)], err |-> "nil"]
  ELSE [b |-> b, err |-> "CopyError"]

UnchangedCache ==
  UNCHANGED <<MaxSize, fs, heap, nalloc, mx, toRemove, toTouch, disk, mtime, cl,
              hk, phase, files, idx, recency, lastPut>>

\* chainCache.Get is called
CcGet(k) ==
  /\ cc.pc = "idle"
  /\ cc' = [IdleCc EXCEPT !.pc = "get", !.op = "Get", !.key = k]
  /\ UNCHANGED bcs
  /\ UnchangedCache

\* (CcGetCallKeepsGoing: the loop does not return at the first hit)
CcGetCallKeepsGoing(ok) ==
  /\ cc.pc = "get" /\ cc.i <= Len(bcs)
  /\ LET r == bcGet(bcs[cc.i], cc.key, ok) IN
       cc' = [cc EXCEPT !.out = r.out, !.err = r.err, !.i = @ + 1,
                        !.log = Append(@, [b |-> cc.i, out |-> r.out, err |-> r.err])]
  /\ UNCHANGED bcs
  /\ UnchangedCache

\* chainCache.Get: one iteration, out, err = bc.Get(ctx, key)
CcGetCall(ok) ==
  /\ cc.pc = "get" /\ cc.i <= Len(bcs)
  /\ LET r == bcGet(bcs[cc.i], cc.key, ok) IN
       cc' = [cc EXCEPT !.out = r.out, !.err = r.err, !.i = @ + 1,
                        !.log = Append(@, [b |-> cc.i, out |-> r.out, err |-> r.err]),
                        !.pc = IF r.err = "nil" THEN "ret" ELSE "get"]
  /\ UNCHANGED bcs
  /\ UnchangedCache

\* chainCache.Get: the loop is over, return nil, err
CcGetEnd ==
  /\ cc.pc = "get" /\ cc.i > Len(bcs)
  /\ cc' = [cc EXCEPT !.out = NoFile, !.pc = "ret"]
  /\ UNCHANGED bcs
  /\ UnchangedCache

\* chainCache.Put is called: data, err := io.ReadAll(r)
CcPut(k, d, ok) ==
  /\ cc.pc = "idle"
  /\ cc' = IF ok
           THEN [IdleCc EXCEPT !.pc = "put", !.op = "Put", !.key = k, !.data = d,
                               !.err = "nil"]
           ELSE [IdleCc EXCEPT !.pc = "ret", !.op = "Put", !.key = k,
                               !.err = "ReadError"]
  /\ UNCHANGED bcs
  /\ UnchangedCache

\* chainCache.Put: one iteration, err1 := bc.Put(...); err1 == nil: err = nil
CcPutCall(ok) ==
  /\ cc.pc = "put" /\ cc.i <= Len(bcs)
  /\ LET r == bcPut(bcs[cc.i], cc.key, cc.data, ok) IN
       /\ bcs' = [bcs EXCEPT ![cc.i] = r.b]
       /\ cc' = [cc EXCEPT !.err = IF r.err = "nil" THEN "nil" ELSE @, !.i = @ + 1,
                           !.log = Append(@, [b |-> cc.i, out |-> File(cc.data),
                                              err |-> r.err])]
  /\ UnchangedCache

\* chainCache.Put: the loop is over, return err
CcPutEnd ==
  /\ cc.pc = "put" /\ cc.i > Len(bcs)
  /\ cc' = [cc EXCEPT !.pc = "ret"]
  /\ UNCHANGED bcs
  /\ UnchangedCache

\* the chainCache call returns to its caller
CcReturn ==
  /\ cc.pc = "ret"
  /\ cc' = IdleCc
  /\ UNCHANGED bcs
  /\ UnchangedCache

\* a chain over any backends; the engine itself takes no step
ChainInit ==
  /\ MaxSize = 0
  /\ fs = EmptyFs
  /\ heap = [e \in Entries |-> NoEntry]
  /\ nalloc = 0
  /\ mx = "free"
  /\ toRemove = <<>>
  /\ toTouch = <<>>
  /\ disk = [p \in Paths |-> NoFile]
  /\ mtime = [p \in Paths |-> 0]
  /\ cl = IdleCl
  /\ hk = [pc |-> "select", toRemove |-> nil]
  /\ phase = "running"
  /\ files = <<>>
  /\ idx = 1
  /\ recency = <<>>
  /\ lastPut = [k \in AllKeys |-> NoFile]
  /\ bcs \in Chains
  /\ cc = IdleCc

ChainNext ==
  \/ \E k \in Keys : CcGet(k)
  \/ \E ok \in BOOLEAN : CcGetCall(ok)
  \/ CcGetEnd
  \/ \E k \in Keys, d \in Data, ok \in BOOLEAN : CcPut(k, d, ok)
  \/ \E ok \in BOOLEAN : CcPutCall(ok)
  \/ CcPutEnd
  \/ CcReturn

ChainSpec == ChainInit /\ [][ChainNext]_vars

\* ---------------------------------------------------------------- claims
StoreEntries == {fs.store[k] : k \in {j \in AllKeys : fs.store[j] # nil}}

RECURSIVE SumSizes(_)
SumSizes(S) ==
  IF S = {} THEN 0
  ELSE LET e == CHOOSE x \in S : TRUE IN heap[e].size + SumSizes(S \ {e})

\* the entries met walking from e along next, at most n of them
RECURSIVE Chain(_, _)
Chain(e, n) == IF e = nil \/ n = 0 THEN <<>> ELSE <<e>> \o Chain(heap[e].next, n - 1)

WalkFromLast == Chain(fs.last, Cardinality(Entries) + 1)

\* C1: total equals the sum of size over the Entries of the key->Entry mapping
C1_Accounting == fs.total = SumSizes(StoreEntries)

\* C2: the walk from last along next to first meets exactly the Entries of the
\* mapping, each once
C2_Uniqueness ==
  LET w == WalkFromLast IN
  /\ Len(w) <= Cardinality(Entries)
  /\ \A i, j \in 1..Len(w) : i # j => w[i] # w[j]
  /\ {w[i] : i \in 1..Len(w)} = StoreEntries
  /\ IF w = <<>> THEN fs.first = nil ELSE w[Len(w)] = fs.first

\* C3: whenever size enforcement removes an Entry of the index, it is the
\* Entry whose last successful Put or Get hit is the oldest
C3_StrictLRU ==
  [][(hk.pc = "lock" /\ hk'.pc = "send"
        /\ fs.store[heap[hk.toRemove].key] = hk.toRemove)
       => hk.toRemove = fs.store[Head(recency)]]_vars

\* C4: under fair scheduling the system reaches, and stays in, total <= maxSize
C4_BudgetConvergence == <>[](fs.total <= MaxSize)

\* C5: a Get of k returns the content of the last successful Put of k, when k
\* was not removed from the index since
C5_RoundTrip ==
  (cl.pc = "ret" /\ cl.op = "Get" /\ lastPut[cl.key].exists)
    => (cl.err = "nil" /\ cl.out = lastPut[cl.key].data)

Quiescent == cl.pc = "idle" /\ hk.pc = "select" /\ toRemove = <<>>

\* C6: in a quiescent state every key of the index has its file on disk, of
\* the Entry's size
C6_TrackedFilesExist ==
  Quiescent =>
    \A k \in AllKeys : fs.store[k] # nil =>
      /\ disk[fname(k)].exists
      /\ Len(disk[fname(k)].data) = heap[fs.store[k]].size

\* C7: a Get whose file is missing returns ErrNotFound, never the read error
C7_MissingFileIsNotFound ==
  ~(cl.pc = "ret" /\ cl.op = "Get" /\ cl.err = "PathError")

\* no Entry has left the index since NewFileSystemCache returned
JustStarted ==
  /\ phase = "running"
  /\ \A e \in 1..nalloc : fs.store[heap[e].key] = e

Retained == {i \in 1..Len(files) : disk[files[i].path].exists}
Deleted == {i \in 1..Len(files) : ~disk[files[i].path].exists}

\* C8: when NewFileSystemCache returns, total <= maxSize
C8_StartupBudget == JustStarted => fs.total <= MaxSize

\* C9: after construction the head is the retained file with the newest
\* modification time and the tail the one with the oldest
C9_StartupRecency ==
  (JustStarted /\ fs.first # nil /\ fs.last # nil) =>
    \A k \in AllKeys : fs.store[k] # nil =>
      /\ mtime[fname(heap[fs.first].key)] >= mtime[fname(k)]
      /\ mtime[fname(heap[fs.last].key)] <= mtime[fname(k)]

\* C10: after construction every retained file is at least as new as every
\* deleted file, and Has answers true exactly for the files left on disk
C10_StartupRebuild ==
  JustStarted =>
    /\ \A r \in Retained, d \in Deleted : files[r].mtime >= files[d].mtime
    /\ \A k \in AllKeys : has(k) <=> disk[fname(k)].exists
    /\ \A i \in 1..Len(files) : has(Rel(base, files[i].path)) <=> i \in Retained

\* C10 witness: the engine has started on a directory over the budget, with
\* files retained and files deleted, some of them of different times
C10_Witness ==
  /\ JustStarted
  /\ Cardinality(Retained) >= 2 /\ Deleted # {}
  /\ \E r \in Retained, d \in Deleted : files[r].mtime > files[d].mtime
  /\ \E r \in Retained, d \in Deleted : files[r].mtime = files[d].mtime

\* C11: a Put that fails returns the error, leaves no file it wrote, and
\* leaves the mapping, the ordering and total as they were
C11_PutFailureRollback ==
  [][(cl.pc = "idle" /\ cl'.pc = "ret" /\ cl'.op = "Put")
       => /\ cl'.err # "nil"
          /\ fs' = fs /\ heap' = heap /\ nalloc' = nalloc
          /\ cl'.err = "CopyError" => ~disk'[fname(cl'.key)].exists
          /\ cl'.err = "CreateError" => disk' = disk]_vars

\* C11 witness: a Put has failed after writing, on a key the index holds
C11_Witness ==
  /\ cl.pc = "ret" /\ cl.op = "Put" /\ cl.err = "CopyError"
  /\ has(cl.key) /\ fs.total > 0

\* C12: Delete of a key absent from the index returns success and changes
\* neither the mapping, the ordering, total, the queues nor the files; once
\* Delete(k) has removed k the mapping has no k, so a second Delete(k) is
\* that no-op
C12_IdempotentDelete ==
  [][/\ (cl.pc = "idle" /\ cl'.op = "Delete" /\ ~has(cl'.key))
          => /\ cl'.pc = "ret" /\ cl'.err = "nil"
             /\ fs' = fs /\ heap' = heap /\ nalloc' = nalloc
             /\ toRemove' = toRemove /\ toTouch' = toTouch
             /\ disk' = disk /\ mtime' = mtime
             /\ fs'.store[cl'.key] = nil
     /\ cl'.op = "Delete" => fs'.store[cl'.key] = nil]_vars

\* C12 witness: a Delete of an absent key has returned while the index
\* holds another key
C12_Witness ==
  /\ cl.op = "Delete" /\ cl.pc = "ret" /\ cl.fi = nil
  /\ fs.first # nil /\ fs.total > 0

\* C13: Has(k) answers true exactly when the mapping has k, and changes
\* neither the mapping, the ordering, total, the two queues nor the files
C13_HasIsPure ==
  [][(cl.pc = "idle" /\ cl'.op = "Has")
       => /\ cl'.pc = "ret"
          /\ (cl'.out = <<1>>) <=> (fs.store[cl'.key] # nil)
          /\ fs' = fs /\ heap' = heap /\ nalloc' = nalloc
          /\ toRemove' = toRemove /\ toTouch' = toTouch
          /\ disk' = disk /\ mtime' = mtime /\ mx' = mx]_vars

\* C13 witness: Has has answered true for a key that is not at the head of
\* an index of two Entries
C13_Witness ==
  /\ cl.op = "Has" /\ cl.pc = "ret" /\ cl.out = <<1>>
  /\ fs.first # nil /\ fs.store[cl.key] # fs.first
  /\ Cardinality({k \in Keys : has(k)}) = 2

\* C14: chainCache.Get calls the backends in order, returns the content the
\* first successful backend Get returned, and returns an error only when
\* every backend's Get failed; over two backends of which only the second
\* holds the key it returns the second's content
C14_ChainGet ==
  (cc.pc = "ret" /\ cc.op = "Get") =>
    LET n == Len(cc.log) IN
      /\ n <= Len(bcs)
      /\ \A j \in 1..n : cc.log[j].b = j
      /\ \A j \in 1..(n - 1) : cc.log[j].err # "nil"
      /\ (cc.err = "nil" /\ Len(bcs) >= 1)
            => /\ n >= 1 /\ cc.log[n].err = "nil"
               /\ cc.out = cc.log[n].out
               /\ cc.out = bcs[n][cc.key] /\ cc.out # NoFile
      /\ cc.err # "nil" => /\ n = Len(bcs)
                           /\ \A j \in 1..n : cc.log[j].err # "nil"
      /\ (Len(bcs) = 2 /\ bcs[1][cc.key] = NoFile /\ bcs[2][cc.key] # NoFile
          /\ n = 2 /\ cc.log[2].err = "nil")
            => cc.err = "nil" /\ cc.out = bcs[2][cc.key]

\* C14 witness: over two backends of which only the second holds the key,
\* Get has returned that content
C14_Witness ==
  /\ cc.pc = "ret" /\ cc.op = "Get" /\ cc.err = "nil"
  /\ Len(bcs) = 2 /\ bcs[1][cc.key] = NoFile /\ bcs[2][cc.key] = File(<<1>>)
  /\ cc.out = File(<<1>>)

\* C15: chainCache.Put hands the full content to every backend, succeeds
\* when one backend's Put succeeds, and returns an error when the chain has
\* a backend and every backend's Put failed
C15_ChainPut ==
  (cc.pc = "ret" /\ cc.op = "Put" /\ cc.err # "ReadError") =>
    /\ Len(cc.log) = Len(bcs)
    /\ \A j \in 1..Len(bcs) : cc.log[j].b = j /\ cc.log[j].out = File(cc.data)
    /\ (\E j \in 1..Len(bcs) : cc.log[j].err = "nil") => cc.err = "nil"
    /\ (Len(bcs) >= 1 /\ \A j \in 1..Len(bcs) : cc.log[j].err # "nil")
          => cc.err # "nil"

\* C16: the Entry that size enforcement removes exists (ensureSize never
\* removes a nil tail) and is in the index when it is removed, so that no
\* Entry is removed and no size subtracted twice
C16_LockedEviction ==
  [][(hk.pc = "lock" /\ hk'.pc # "lock")
       => /\ hk.toRemove # nil
          /\ \/ hk.toRemove \in StoreEntries
             \/ \E i \in 1..Len(WalkFromLast) : WalkFromLast[i] = hk.toRemove
          /\ fs'.total >= 0]_vars

\* C17: after a Get hit on k, the Entry of k is the head: first designates
\* it and it has no more recent neighbour
C17_HeadTail ==
  [][(cl.pc = "idle" /\ cl'.op = "Get" /\ fs.store[cl'.key] # nil
        /\ cl'.pc # "panic")
       => /\ fs'.first = fs'.store[cl'.key]
          /\ heap'[fs'.first].next = nil]_vars

\* C18: no request is enqueued on the touch queue while the index mutex is
\* held, and every Get hit enqueues a touch request before it reads the file
\* or returns
C18_GetStepOrder ==
  [][/\ Len(toTouch') > Len(toTouch) => mx = "free"
     /\ (cl.pc = "idle" /\ cl'.op = "Get" /\ fs.store[cl'.key] # nil
           /\ cl'.pc # "panic")
          => cl'.pc = "touch"]_vars

\* the housekeeper waits for the mutex; its holder, a Get, is blocked sending
\* to the full touch queue, which only the housekeeper drains
GetBlocked ==
  hk.pc = "lock" /\ mx = "cl" /\ cl.pc = "touch" /\ Len(toTouch) = channelBuffer

\* C19: the housekeeper is never blocked for good: neither waiting for the
\* mutex held by a caller that is blocked on a full queue, nor, when
\* ensureSize has removed an Entry of a consistent index, sending to the full
\* remove queue that only the housekeeper drains
C19_DeadlockFree ==
  [][/\ ~GetBlocked'
     /\ (hk.pc = "lock" /\ hk'.pc = "send"
           /\ fs.store[heap[hk.toRemove].key] = hk.toRemove
           /\ C1_Accounting /\ C2_Uniqueness)
          => Len(toRemove') < channelBuffer]_vars

\* C20: a Delete that has removed the Entry of a present key gets its file
\* removal request enqueued: it is never left waiting at a full remove queue
\* while the housekeeper, the queue's only receiver, is itself blocked sending
\* to it
C20_DeferredUnlink ==
  ~(cl.op = "Delete" /\ cl.pc = "rm" /\ hk.pc = "send"
      /\ Len(toRemove) = channelBuffer)

====
